---------------------------- MODULE Spec2Model ----------------------------
(***************************************************************************)
(* A model of pyneon/preprocess/preprocess.py: crop, interpolate,          *)
(* window_average, concat_streams and concat_events.                       *)
(*                                                                         *)
(* A DataFrame is a record [cols, rows]: cols is the sequence of column    *)
(* names, rows the sequence of rows, and a row is the sequence of its      *)
(* cells in column order.  A column is looked up by name, the first match. *)
(*                                                                         *)
(* Cells:                                                                  *)
(*   - "timestamp [ns]" cells are integers (nanoseconds);                  *)
(*   - "time [s]" cells are the exact rational n / 1e9 and are kept as the *)
(*     numerator n (an integer count of nanoseconds): the code computes    *)
(*     them as (ts - ts[0]) / 1e9;                                         *)
(*   - the other cells are pairs <<n, d>>, the rational n / d with d > 0,  *)
(*     and NaN is the pair <<0, 0>>;                                       *)
(*     cells of an integer column are such pairs too, with d = 1: the      *)
(*     dtype of a column is kept apart from its cells, in the field dtypes *)
(*     of the tables that interpolate reads.                               *)
(***************************************************************************)
EXTENDS Integers, Sequences, FiniteSets, TLC

\* rec: the recording (its streams and event tables); data: the table handed
\* to crop, interpolate or window_average; call: the last call and its
\* arguments; ret: what that call returned or raised; ncalls: the number of
\* calls made to concat_events
VARIABLES rec, data, call, ret, ncalls

vars == <<rec, data, call, ret, ncalls>>

---------------------------------------------------------------------------
(* Bounds of the model.                                                    *)

\* the largest number of rows of a source table
MaxRows == 3
\* the largest timestamp / time value of a source table passed to crop
MaxT == 3

---------------------------------------------------------------------------
(* Generic helpers.                                                        *)

\* Python's None, and a supplied optional value v as <<v>>
None == <<>>
Some(v) == <<v>>

NaN == <<0, 0>>
Float(n) == <<n, 1>>
Abs(n) == IF n < 0 THEN -n ELSE n
RECURSIVE GCD(_, _)
GCD(a, b) == IF b = 0 THEN a ELSE GCD(b, a % b)
\* the rational n / d, d > 0, in lowest terms
Frac(n, d) == LET g == GCD(Abs(n), d) IN <<n \div g, d \div g>>
IsNaN(v) == v[2] = 0
RatAdd(p, q) == Frac(p[1] * q[2] + q[1] * p[2], p[2] * q[2])
RatSub(p, q) == Frac(p[1] * q[2] - q[1] * p[2], p[2] * q[2])
RatMul(p, q) == Frac(p[1] * q[1], p[2] * q[2])

NoTable == [cols |-> <<>>, rows |-> <<>>]
\* what a call did: it returned table, or it raised error with message msg
Ok(t) == [status |-> "ok", error |-> "", msg |-> "", table |-> t]
Raise(e, m) == [status |-> "raise", error |-> e, msg |-> m, table |-> NoTable]

NoCall == [op |-> "none"]
NoRet == [status |-> "none", error |-> "", msg |-> "", table |-> NoTable]

HasCol(df, name) == \E i \in 1..Len(df.cols) : df.cols[i] = name
ColIdx(df, name) ==
    CHOOSE i \in 1..Len(df.cols) :
        /\ df.cols[i] = name
        /\ \A j \in 1..(i - 1) : df.cols[j] # name
\* the column as a sequence of cells, df[name]
Col(df, name) == [r \in 1..Len(df.rows) |-> df.rows[r][ColIdx(df, name)]]

RECURSIVE SeqSum(_)
SeqSum(s) == IF s = <<>> THEN 0 ELSE s[1] + SeqSum(Tail(s))

SeqMin(s) == CHOOSE m \in {s[i] : i \in 1..Len(s)} : \A i \in 1..Len(s) : m <= s[i]
SeqMax(s) == CHOOSE m \in {s[i] : i \in 1..Len(s)} : \A i \in 1..Len(s) : m >= s[i]

\* np.diff
Diff(s) == [i \in 1..(Len(s) - 1) |-> s[i + 1] - s[i]]

\* a missing sort: the sequence as given
np_unsorted(s) == s

\* np.sort of a sequence of distinct or repeated integers (the result of a
\* sort of integers is unique)
RECURSIVE np_sort(_)
np_sort(s) ==
    IF s = <<>> THEN <<>>
    ELSE LET i == CHOOSE k \in 1..Len(s) : \A j \in 1..Len(s) : s[k] <= s[j]
         IN  <<s[i]>> \o np_sort([j \in 1..(Len(s) - 1) |->
                                      IF j < i THEN s[j] ELSE s[j + 1]])

Reverse(s) == [i \in 1..Len(s) |-> s[Len(s) + 1 - i]]
NonDecreasing(s) == \A i, j \in 1..Len(s) : i < j => s[i] <= s[j]
\* the sequences over S of length n in ascending order
AscSeqs(S, n) == {s \in [1..n -> S] : NonDecreasing(s)}

\* rows of df selected by a boolean mask, df[mask]
RECURSIVE MaskRows(_, _)
MaskRows(rows, mask) ==
    IF rows = <<>> THEN <<>>
    ELSE (IF mask[1] THEN <<rows[1]>> ELSE <<>>)
         \o MaskRows(Tail(rows), Tail(mask))

---------------------------------------------------------------------------
(* _check_data                                                             *)

TS == "timestamp [ns]"
TIME == "time [s]"

\* "" when the check passes, and the message of the ValueError otherwise
check_data(df, t_col_name) ==
    IF ~HasCol(df, t_col_name) THEN "Data must contain the column"
    ELSE IF \E i \in 1..(Len(df.rows) - 1) : Diff(Col(df, t_col_name))[i] < 0
         THEN "must be monotonically increasing"
         ELSE ""

---------------------------------------------------------------------------
(* crop                                                                    *)

\* a wrong crop mask: the upper end of the range left out
InRangeOpenEnd(t, tmin, tmax) == t >= tmin /\ t < tmax

\* the mask of line 55
InRange(t, tmin, tmax) == t >= tmin /\ t <= tmax

crop(df, tmin, tmax, by) ==
    IF tmin = None /\ tmax = None
    THEN Raise("ValueError", "At least one of tmin or tmax must be provided")
    ELSE
      LET t_col_name == IF by = "timestamp" THEN TS ELSE TIME
      IN  IF check_data(df, t_col_name) # ""
          THEN Raise("ValueError", check_data(df, t_col_name))
          \* min() and max() of no rows are NaN, and the mask of no rows is empty
          ELSE IF df.rows = <<>> THEN Ok(df)
          ELSE
            LET t  == Col(df, t_col_name)
                lo == IF tmin # None THEN tmin[1] ELSE SeqMin(t)
                hi == IF tmax # None THEN tmax[1] ELSE SeqMax(t)
                mask == [r \in 1..Len(df.rows) |-> InRange(t[r], lo, hi)]
            IN  Ok([cols |-> df.cols, rows |-> MaskRows(df.rows, mask)])

\* the tables handed to crop: with or without the time columns, timestamps in
\* any order, the relative time offset from a reference at or before the
\* first row, and an integer column "x" numbering the rows
CropCols == {<<TS, TIME, "x">>, <<TS, "x">>, <<TIME, "x">>}
CropTables ==
    UNION {
      { [cols |-> c,
         rows |-> [r \in 1..n |->
                     IF c = <<TS, TIME, "x">> THEN <<ts[r], ts[r] + off, Float(r)>>
                     ELSE IF c = <<TS, "x">> THEN <<ts[r], Float(r)>>
                     ELSE <<ts[r] + off, Float(r)>>]] :
          ts \in [1..n -> 0..MaxT], off \in {0, 1}, c \in CropCols } :
      n \in 0..MaxRows }

OptBounds == {None} \cup {Some(v) : v \in 0..(MaxT + 1)}

\* one application of crop to the table held in data
CropCall ==
    /\ call.op = "none"
    /\ \E tmin \in OptBounds, tmax \in OptBounds, by \in {"timestamp", "time"} :
          /\ call' = [op |-> "crop", data |-> data, tmin |-> tmin,
                      tmax |-> tmax, by |-> by]
          /\ ret' = crop(data, tmin, tmax, by)
          /\ UNCHANGED <<rec, data, ncalls>>

NoRec == [none |-> TRUE]

InitCrop ==
    /\ rec = NoRec
    /\ data \in CropTables
    /\ call = NoCall
    /\ ret = NoRet
    /\ ncalls = 0

NextCrop == CropCall

SpecCrop == InitCrop /\ [][NextCrop]_vars

\* the rows of a crop call's table that lie in the requested range, an
\* omitted bound being the least / greatest time of the table
CropTCol == IF call.by = "timestamp" THEN TS ELSE TIME
CropT == Col(call.data, CropTCol)
CropLo == IF call.tmin # None THEN call.tmin[1] ELSE SeqMin(CropT)
CropHi == IF call.tmax # None THEN call.tmax[1] ELSE SeqMax(CropT)
CropKept == IF call.data.rows = <<>> THEN {}
            ELSE {i \in 1..Len(CropT) : CropLo <= CropT[i] /\ CropT[i] <= CropHi}
CropValid ==
    /\ call.op = "crop"
    /\ call.tmin # None \/ call.tmax # None
    /\ HasCol(call.data, CropTCol)
    /\ NonDecreasing(CropT)

\* C10: on a table whose chosen time column is present and non-decreasing,
\* with at least one of tmin / tmax supplied, crop returns exactly the rows
\* with tmin <= t <= tmax in their original order (an omitted bound is the
\* table's own minimum / maximum), every row when both bounds are the table's
\* own minimum and maximum, and the source table is as it was.
C10_CropKeepsExactlyTheRange ==
    CropValid =>
        /\ ret.status = "ok"
        /\ ret.table.cols = call.data.cols
        /\ Len(ret.table.rows) = Cardinality(CropKept)
        /\ \A j \in 1..Len(ret.table.rows) :
              \E i \in CropKept :
                 /\ Cardinality({k \in CropKept : k < i}) = j - 1
                 /\ ret.table.rows[j] = call.data.rows[i]
        /\ (call.data.rows # <<>> /\ CropLo = SeqMin(CropT)
                                  /\ CropHi = SeqMax(CropT))
              => ret.table.rows = call.data.rows
        /\ data = call.data

\* a crop with tmin omitted that drops some rows and keeps others
C10_Witness ==
    /\ CropValid
    /\ call.tmin = None /\ call.tmax # None
    /\ ret.status = "ok"
    /\ ret.table.rows # <<>>
    /\ Len(ret.table.rows) < Len(call.data.rows)

---------------------------------------------------------------------------
(* window_average                                                          *)

\* the largest number of new timestamps handed to window_average
MaxNew == 3

\* twice np.median of a non-empty sequence of integers (the median of an
\* even number of values is the mean of the two middle ones)
Median2(s) ==
    LET o == np_sort(s)
        m == Len(o)
    IN  IF m % 2 = 1 THEN 2 * o[(m + 1) \div 2]
        ELSE o[m \div 2] + o[m \div 2 + 1]

\* line 146: new_ts_median_diff < np.mean(np.diff(data["timestamp [ns]"])),
\* with med2 twice the median and old the spacings of the source
TooFine(med2, old) == med2 * Len(old) < 2 * SeqSum(old)

\* a wrong window: the upper end left out
InWindowOpenEnd(t, ts, window_size) ==
    2 * t >= 2 * ts - window_size /\ 2 * t < 2 * ts + window_size

\* lines 161-167: ts - window_size / 2 <= t <= ts + window_size / 2, where
\* the division is a float division
InWindow(t, ts, window_size) ==
    2 * t >= 2 * ts - window_size /\ 2 * t <= 2 * ts + window_size

\* line 151: int(new_ts_median_diff), a truncation (the median is >= 0)
DefaultWindow(nts) == Median2(Diff(nts)) \div 2

\* pandas' Series.mean(): the mean of the cells that are not NaN, and NaN
\* when there is none
RECURSIVE CellSum(_)
CellSum(cells) ==
    IF cells = <<>> THEN <<0, 1>>
    ELSE IF IsNaN(cells[1]) THEN CellSum(Tail(cells))
    ELSE RatAdd(cells[1], CellSum(Tail(cells)))
CellCount(cells) == Cardinality({i \in 1..Len(cells) : ~IsNaN(cells[i])})
SeriesMean(cells) ==
    IF CellCount(cells) = 0 THEN NaN
    ELSE Frac(CellSum(cells)[1], CellSum(cells)[2] * CellCount(cells))

\* the names of the columns that are not time columns, in order
RECURSIVE ValueCols(_)
ValueCols(cols) ==
    IF cols = <<>> THEN <<>>
    ELSE (IF cols[1] = TS \/ cols[1] = TIME THEN <<>> ELSE <<cols[1]>>)
         \o ValueCols(Tail(cols))

window_average(new_ts, df, window_size) ==
    IF check_data(df, TS) # "" THEN Raise("ValueError", check_data(df, TS))
    ELSE
      LET nts == np_sort(new_ts)
          \* np.median and np.mean of no spacing are NaN, and a comparison
          \* with NaN is False
          med_nan == Len(nts) < 2
          old == Diff(Col(df, TS))
          mean_nan == Len(old) < 1
      IN  IF ~med_nan /\ ~mean_nan /\ TooFine(Median2(Diff(nts)), old)
          THEN Raise("ValueError",
                     "new_ts must have a lower sampling frequency than the old data")
          \* int(nan)
          ELSE IF window_size = None /\ med_nan
          THEN Raise("ValueError", "cannot convert float NaN to integer")
          \* new_ts[0] of no timestamp
          ELSE IF nts = <<>> THEN Raise("IndexError", "index 0 is out of bounds")
          ELSE
            LET w == IF window_size = None THEN DefaultWindow(nts)
                     ELSE window_size[1]
                t == Col(df, TS)
                vcols == ValueCols(df.cols)
                window_data(ts) ==
                    MaskRows(df.rows,
                             [r \in 1..Len(df.rows) |-> InWindow(t[r], ts, w)])
                value(ts, c) ==
                    IF window_data(ts) # <<>>
                    THEN SeriesMean(Col([cols |-> df.cols,
                                         rows |-> window_data(ts)], c))
                    ELSE NaN
            IN  Ok([cols |-> <<TS, TIME>> \o vcols,
                    rows |-> [i \in 1..Len(nts) |->
                                <<nts[i], nts[i] - nts[1]>>
                                \o [k \in 1..Len(vcols) |-> value(nts[i], vcols[k])]]])

\* the source tables of window_average: timestamps in ascending order or
\* reversed, the relative time counted from the first row, and a float column
\* "x" whose cell in row r is r or missing
WinSrcTs == {0, 1, 3}
WinTables ==
    UNION {
      { [cols |-> <<TS, TIME, "x">>,
         rows |-> [r \in 1..n |->
                     <<ts[r], ts[r] - ts[1],
                       IF r \in gaps THEN NaN ELSE Float(r)>>]] :
          ts \in AscSeqs(WinSrcTs, n) \cup {Reverse(a) : a \in AscSeqs(WinSrcTs, n)},
          gaps \in SUBSET (1..n) } :
      n \in 0..MaxRows }

\* the new timestamps, a timeline of distinct instants: ascending, or in the
\* reverse order
WinNewTs == {0, 2, 3, 6}
WinNew ==
    UNION { {a \in AscSeqs(WinNewTs, n) : \A i, j \in 1..n : i < j => a[i] < a[j]}
            \cup {Reverse(a) : a \in {b \in AscSeqs(WinNewTs, n) :
                                         \A i, j \in 1..n : i < j => b[i] < b[j]}} :
            n \in 0..MaxNew }

WinSizes == {None, Some(0), Some(3), Some(4)}

\* one application of window_average to the table held in data
WindowAverageCall ==
    /\ call.op = "none"
    /\ \E new_ts \in WinNew, window_size \in WinSizes :
          /\ call' = [op |-> "window_average", data |-> data, new_ts |-> new_ts,
                      window_size |-> window_size]
          /\ ret' = window_average(new_ts, data, window_size)
          /\ UNCHANGED <<rec, data, ncalls>>

InitWin ==
    /\ rec = NoRec
    /\ data \in WinTables
    /\ call = NoCall
    /\ ret = NoRet
    /\ ncalls = 0

NextWin == WindowAverageCall

SpecWin == InitWin /\ [][NextWin]_vars

\* a window_average call on a source table that passes _check_data; the
\* spacings are defined when there are two new timestamps and two source rows
WinChecked ==
    /\ call.op = "window_average"
    /\ HasCol(call.data, TS)
    /\ NonDecreasing(Col(call.data, TS))
WinSpacingsDefined ==
    /\ WinChecked
    /\ Len(call.new_ts) >= 2
    /\ Len(call.data.rows) >= 2
\* twice the median spacing of the new timestamps
WinMedian2 == Median2(Diff(np_sort(call.new_ts)))
\* the mean spacing of the source timestamps is WinSpan / WinGaps
WinSpan == Col(call.data, TS)[Len(call.data.rows)] - Col(call.data, TS)[1]
WinGaps == Len(call.data.rows) - 1
WinRejected ==
    /\ ret.status = "raise"
    /\ ret.error = "ValueError"
    /\ ret.msg = "new_ts must have a lower sampling frequency than the old data"
    /\ ret.table = NoTable

\* C6, as stated: window_average fails with ValueError whenever the median
\* spacing of the new timestamps does not exceed (is less than or equal to)
\* the mean spacing of the source timestamps.
C6_RejectsUnlessMedianExceedsMean ==
    (WinSpacingsDefined /\ WinMedian2 * WinGaps <= 2 * WinSpan) => WinRejected

\* C6, amended: window_average fails with ValueError exactly when the median
\* spacing of the new timestamps is strictly less than the mean spacing of the
\* source timestamps, whether or not window_size is supplied; with equal
\* spacings the call is accepted; a rejected call returns no table.
C6_RejectsIffMedianBelowMean ==
    WinSpacingsDefined =>
        (WinRejected <=> WinMedian2 * WinGaps < 2 * WinSpan)

\* a call with window_size supplied that is rejected for its spacing
C6_Witness ==
    /\ WinSpacingsDefined
    /\ call.window_size # None
    /\ WinMedian2 * WinGaps < 2 * WinSpan
    /\ WinRejected

\* the window of a call, doubled: the supplied one, or the (exact) median
\* spacing of the new timestamps
WinWindow2 == IF call.window_size # None THEN 2 * call.window_size[1]
              ELSE WinMedian2
\* the source rows within half a window of the new timestamp t, ends included
WinRowsAt(t) ==
    {r \in 1..Len(call.data.rows) :
        /\ 4 * t - WinWindow2 <= 4 * Col(call.data, TS)[r]
        /\ 4 * Col(call.data, TS)[r] <= 4 * t + WinWindow2}
RECURSIVE SumOver(_, _)
SumOver(S, cells) ==
    IF S = {} THEN 0
    ELSE LET r == CHOOSE x \in S : TRUE
         IN  cells[r][1] + SumOver(S \ {r}, cells)
Occurrences(s, v) == Cardinality({i \in 1..Len(s) : s[i] = v})

\* C7: an accepted window_average call returns one row per new timestamp, in
\* ascending order, and the cell of a value column in the row of new timestamp
\* t is the arithmetic mean of the column over exactly the source rows with
\* t - window/2 <= timestamp <= t + window/2 (a missing source cell carries
\* no value), NaN when no source row lies in the window; a window that is not
\* supplied is the median spacing of the new timestamps.
C7_WindowMeanPerNewTimestamp ==
    (call.op = "window_average" /\ ret.status = "ok") =>
        LET out == ret.table
            ots == Col(out, TS)
            x   == Col(call.data, "x")
        IN  /\ Len(out.rows) = Len(call.new_ts)
            /\ NonDecreasing(ots)
            /\ \A i \in 1..Len(call.new_ts) :
                  Occurrences(ots, call.new_ts[i])
                      = Occurrences(call.new_ts, call.new_ts[i])
            /\ \A i \in 1..Len(out.rows) :
                  LET rows == WinRowsAt(ots[i])
                      present == {r \in rows : ~IsNaN(x[r])}
                      v == Col(out, "x")[i]
                  IN  /\ rows = {} => v = NaN
                      /\ IF present = {} THEN v = NaN
                         ELSE /\ ~IsNaN(v)
                              /\ v[1] * Cardinality(present)
                                     = v[2] * SumOver(present, x)

\* an accepted call without window_size, given out of order, with a row whose
\* window is empty and a row that averages two source rows
C7_Witness ==
    /\ call.op = "window_average" /\ ret.status = "ok"
    /\ call.window_size = None
    /\ ~NonDecreasing(call.new_ts)
    /\ \E i \in 1..Len(ret.table.rows) : WinRowsAt(Col(ret.table, TS)[i]) = {}
    /\ \E i \in 1..Len(ret.table.rows) :
          /\ Cardinality(WinRowsAt(Col(ret.table, TS)[i])) >= 2
          /\ ~IsNaN(Col(ret.table, "x")[i])

---------------------------------------------------------------------------
(* interpolate                                                             *)

\* interp1d(x, y, bounds_error=False): NaN outside [x[0], x[-1]], no
\* extrapolation.  x is strictly increasing here.
InBounds(x, t) == x[1] <= t /\ t <= x[Len(x)]
\* the last source sample at or before t
Below(x, t) == CHOOSE j \in 1..Len(x) :
                  x[j] <= t /\ \A k \in 1..Len(x) : x[k] <= t => k <= j

\* kind="linear" (lines 96-101)
interp1d_linear(x, y, t) ==
    IF ~InBounds(x, t) THEN NaN
    ELSE LET lo == Below(x, t)
         IN  IF x[lo] = t THEN y[lo]
             ELSE IF IsNaN(y[lo]) \/ IsNaN(y[lo + 1]) THEN NaN
             ELSE RatAdd(y[lo], RatMul(RatSub(y[lo + 1], y[lo]),
                                       <<t - x[lo], x[lo + 1] - x[lo]>>))

\* kind="nearest" (lines 104-109): the sample after as many midpoints as lie
\* strictly below t, so that a t halfway between two samples takes the earlier
interp1d_nearest(x, y, t) ==
    IF ~InBounds(x, t) THEN NaN
    ELSE y[1 + Cardinality({j \in 1..(Len(x) - 1) : x[j] + x[j + 1] < 2 * t})]

is_float_dtype(dtype) == dtype = "float64"

\* Series.astype(dtype) of a float64 column (line 111): NaN cannot be cast to
\* int64, and pandas raises
CanCast(cells, dtype) ==
    dtype = "float64" \/ \A i \in 1..Len(cells) : ~IsNaN(cells[i])

interpolate(new_ts, df) ==
    IF check_data(df, TS) # "" THEN Raise("ValueError", check_data(df, TS))
    ELSE
      LET nts == np_sort(new_ts)
          x == Col(df, TS)
          vidx == {c \in 1..Len(df.cols) : df.cols[c] # TS /\ df.cols[c] # TIME}
          newcol(c) ==
              LET y == [r \in 1..Len(df.rows) |-> df.rows[r][c]]
              IN  [i \in 1..Len(nts) |->
                     IF is_float_dtype(df.dtypes[c])
                     THEN interp1d_linear(x, y, nts[i])
                     ELSE interp1d_nearest(x, y, nts[i])]
          \* the value columns in the order of the source
          vseq == [k \in 1..Cardinality(vidx) |->
                     CHOOSE c \in vidx : Cardinality({b \in vidx : b < c}) = k - 1]
      IN  \* new_ts[0] of no timestamp
          IF nts = <<>> THEN Raise("IndexError", "index 0 is out of bounds")
          ELSE IF \E c \in vidx : ~CanCast(newcol(c), df.dtypes[c])
          THEN Raise("ValueError",
                     "Cannot convert non-finite values (NA or inf) to integer")
          ELSE Ok([cols |-> <<TS, TIME>> \o [k \in 1..Len(vseq) |-> df.cols[vseq[k]]],
                   dtypes |-> <<"Int64", "float64">>
                              \o [k \in 1..Len(vseq) |-> df.dtypes[vseq[k]]],
                   rows |-> [i \in 1..Len(nts) |->
                               <<nts[i], nts[i] - nts[1]>>
                               \o [k \in 1..Len(vseq) |-> newcol(vseq[k])[i]]]])

StrictlyIncreasing(s) == \A i, j \in 1..Len(s) : i < j => s[i] < s[j]

\* interp1d on a source with repeated timestamps lands on one sample of each
\* group of equal timestamps: the table with the first, or with the last, row
\* of each group kept
Dedup(df, keep) ==
    LET x == Col(df, TS)
        mask == [r \in 1..Len(df.rows) |->
                   IF keep = "first" THEN \A q \in 1..(r - 1) : x[q] # x[r]
                   ELSE \A q \in (r + 1)..Len(df.rows) : x[q] # x[r]]
    IN  [cols |-> df.cols, dtypes |-> df.dtypes, rows |-> MaskRows(df.rows, mask)]

\* the source tables of interpolate, of two rows or more: timestamps ascending
\* (repeats allowed) or reversed; the relative time counted from the first row,
\* or from a reference one nanosecond earlier as in a table that crop has cut
\* out of a longer one; a float column "x" and, in half of the tables, an
\* int64 column "k" numbering the rows
InterpSrcTs == {0, 2, 3}
InterpTables ==
    UNION {
      { [cols |-> IF withk THEN <<TS, TIME, "x", "k">> ELSE <<TS, TIME, "x">>,
         dtypes |-> IF withk THEN <<"int64", "float64", "float64", "int64">>
                    ELSE <<"int64", "float64", "float64">>,
         rows |-> [r \in 1..n |->
                     <<ts[r], ts[r] - ts[1] + off, Float(xs[r])>>
                     \o (IF withk THEN <<Float(r)>> ELSE <<>>)]] :
          ts \in AscSeqs(InterpSrcTs, n)
                 \cup {Reverse(a) : a \in AscSeqs(InterpSrcTs, n)},
          off \in {0, 1},
          xs \in [1..n -> {0, 3}],
          withk \in BOOLEAN } :
      n \in 2..MaxRows }

InterpNewTs == {0, 1, 2, 3, 4}
InterpNew ==
    UNION { AscSeqs(InterpNewTs, n) \cup {Reverse(a) : a \in AscSeqs(InterpNewTs, n)} :
            n \in 0..MaxNew }

\* one application of interpolate to the table held in data
InterpolateCall ==
    /\ call.op = "none"
    /\ \E new_ts \in InterpNew,
          keep \in IF HasCol(data, TS) /\ ~StrictlyIncreasing(Col(data, TS))
                   THEN {"first", "last"} ELSE {"first"} :
          /\ call' = [op |-> "interpolate", data |-> data, new_ts |-> new_ts]
          /\ ret' = IF check_data(data, TS) = "" THEN interpolate(new_ts, Dedup(data, keep))
                    ELSE interpolate(new_ts, data)
          /\ UNCHANGED <<rec, data, ncalls>>

InitInterp ==
    /\ rec = NoRec
    /\ data \in InterpTables
    /\ call = NoCall
    /\ ret = NoRet
    /\ ncalls = 0

NextInterp == InterpolateCall

SpecInterp == InitInterp /\ [][NextInterp]_vars

\* an interpolate call on a source table that passes _check_data, with at
\* least one new timestamp
InterpChecked ==
    /\ call.op = "interpolate"
    /\ HasCol(call.data, TS)
    /\ NonDecreasing(Col(call.data, TS))
    /\ call.new_ts # <<>>
InterpFirst == Col(call.data, TS)[1]
InterpLast == Col(call.data, TS)[Len(call.data.rows)]
Outside(t) == t < InterpFirst \/ t > InterpLast
InterpValueCols == {c \in 1..Len(call.data.cols) :
                       call.data.cols[c] # TS /\ call.data.cols[c] # TIME}

\* C5: interpolate returns a table in which every non-time cell of a row whose
\* new timestamp lies outside [first, last] source timestamp is the missing
\* marker, for float and for integer columns alike, and every output column
\* has the dtype of its source column.
C5_OutsideRangeIsMissing ==
    InterpChecked =>
        /\ ret.status = "ok"
        /\ \A i \in 1..Len(ret.table.rows) :
              Outside(ret.table.rows[i][1]) =>
                 \A c \in InterpValueCols : IsNaN(ret.table.rows[i][c])
        /\ \A c \in InterpValueCols : ret.table.dtypes[c] = call.data.dtypes[c]

\* what the code does there: a new timestamp outside the covered range makes
\* the call raise as soon as the source has an int64 column, and gives NaN in
\* every float column otherwise
InterpOutsideRange ==
    (InterpChecked /\ \E i \in 1..Len(call.new_ts) : Outside(call.new_ts[i])) =>
        IF \E c \in InterpValueCols : call.data.dtypes[c] = "int64"
        THEN ret.status = "raise" /\ ret.error = "ValueError"
        ELSE /\ ret.status = "ok"
             /\ \A i \in 1..Len(ret.table.rows) :
                   Outside(ret.table.rows[i][1]) =>
                      \A c \in InterpValueCols : IsNaN(ret.table.rows[i][c])

\* the new timestamps are the distinct timestamps of the source, each once
InterpSameTimestamps ==
    /\ InterpChecked
    /\ {call.new_ts[i] : i \in 1..Len(call.new_ts)}
          = {Col(call.data, TS)[r] : r \in 1..Len(call.data.rows)}
    /\ \A i, j \in 1..Len(call.new_ts) :
          call.new_ts[i] = call.new_ts[j] => i = j
InterpReproduces ==
    /\ ret.status = "ok"
    /\ ret.table.cols = call.data.cols
    /\ ret.table.rows = call.data.rows

---------------------------------------------------------------------------
(* concat_streams                                                          *)

\* the largest number of names in a list of stream names
MaxNames == 2

\* 1e9, the nanoseconds of a second (line 338)
NsPerSec == 1000000000

VALID_STREAMS == {"3d_eye_states", "eye_states", "gaze", "imu"}

\* str.lower() on the names of the model
Lower(name) == CASE name = "Gaze" -> "gaze"
                 [] name = "IMU" -> "imu"
                 [] OTHER -> name

\* a step rounded to the nearest nanosecond instead of truncated
StepRounded(sf) ==
    IF 2 * (NsPerSec % sf) > sf THEN (NsPerSec \div sf) + 1 ELSE NsPerSec \div sf

\* line 338: int(1e9 / sf), for sf > 0
Step(sf) == NsPerSec \div sf

\* np.arange(start, stop, step) for step > 0
arange(start, stop, step) ==
    IF stop <= start THEN <<>>
    ELSE [i \in 1..((stop - start + step - 1) \div step) |-> start + (i - 1) * step]

\* NeonStream.interpolate(new_ts, float_kind, other_kind, inplace): the
\* stream's table resampled as by interpolate
stream_interpolate(stream, new_ts) == interpolate(new_ts, stream.data)

\* pd.merge(left, right, on=["timestamp [ns]", "time [s]"], how="inner"): the
\* rows of left, each joined with the rows of right that have its keys
RECURSIVE MergeRows(_, _)
MergeRows(lrows, rrows) ==
    IF lrows = <<>> THEN <<>>
    ELSE LET l == lrows[1]
             hits == SelectSeq(rrows, LAMBDA r : r[1] = l[1] /\ r[2] = l[2])
         IN  [h \in 1..Len(hits) |-> l \o SubSeq(hits[h], 3, Len(hits[h]))]
             \o MergeRows(Tail(lrows), rrows)
merge(left, right) ==
    [cols |-> left.cols \o SubSeq(right.cols, 3, Len(right.cols)),
     dtypes |-> left.dtypes \o SubSeq(right.dtypes, 3, Len(right.dtypes)),
     rows |-> MergeRows(left.rows, right.rows)]

\* what concat_streams did: the outcome ret of the call, and done, the
\* resampled tables of the streams that were resampled, in order
Out(r, done) == [ret |-> r, done |-> done]

\* lines 344-353, over the streams of stream_info from the k-th on, the loop
\* having come to concat_data
RECURSIVE MergeLoop(_, _, _, _, _)
MergeLoop(streams, k, new_ts, concat_data, done) ==
    IF k > Len(streams) THEN Out(Ok(concat_data), done)
    ELSE LET resamp == stream_interpolate(streams[k], new_ts)
         IN  IF resamp.status # "ok" THEN Out(resamp, done)
             ELSE IF Len(concat_data.rows) # Len(resamp.table.rows)
                     \/ Col(concat_data, TS) # Col(resamp.table, TS)
             THEN Out(Raise("AssertionError", ""),
                      Append(done, <<streams[k].key, resamp.table>>))
             ELSE LET merged == merge(concat_data, resamp.table)
                  IN  IF Len(merged.rows) # Len(resamp.table.rows)
                      THEN Out(Raise("AssertionError", ""),
                               Append(done, <<streams[k].key, resamp.table>>))
                      ELSE MergeLoop(streams, k + 1, new_ts, merged,
                                     Append(done, <<streams[k].key, resamp.table>>))

\* lines 244, 265, 286: is the stream among the (lowered) names
Selected(names, stream) ==
    IF stream = "eye_states"
    THEN \E i \in 1..Len(names) : names[i] \in {"3d_eye_states", "eye_states"}
    ELSE \E i \in 1..Len(names) : names[i] = stream

StreamOrder == <<"gaze", "eye_states", "imu">>

\* lines 242-306: the rows of stream_info, in the order gaze, eye states, IMU
RECURSIVE StreamInfo(_, _, _)
StreamInfo(r, names, k) ==
    IF k > Len(StreamOrder) THEN <<>>
    ELSE (IF Selected(names, StreamOrder[k]) THEN <<r[StreamOrder[k]][1]>> ELSE <<>>)
         \o StreamInfo(r, names, k + 1)

\* line 234: len(stream_names)
CountListed(listed) == Len(listed)

\* stream_names is the string name ("all" or another) when str, the list of
\* names otherwise; sampling_freq is the string name ("min", "max" or another)
\* when str, the number num otherwise
concat_streams(r, stream_names, sampling_freq) ==
    IF stream_names.str /\ stream_names.name # "all"
    THEN Out(Raise("ValueError",
                   "Invalid stream_names, must be 'all' or a list of stream names."),
             <<>>)
    ELSE
      LET listed == IF stream_names.str
                    THEN <<"3d_eye_states", "eye_states", "gaze", "imu">>
                    ELSE stream_names.list
          names == [i \in 1..Len(listed) |-> Lower(listed[i])]
      IN  IF CountListed(listed) <= 1
          THEN Out(Raise("ValueError",
                         "Must provide at least two streams to concatenate."), <<>>)
          ELSE IF \E i \in 1..Len(names) : names[i] \notin VALID_STREAMS
          THEN Out(Raise("ValueError", "Invalid stream name"), <<>>)
          ELSE IF Selected(names, "gaze") /\ r.gaze = None
          THEN Out(Raise("ValueError", "Cannnot load gaze data."), <<>>)
          ELSE IF Selected(names, "eye_states") /\ r.eye_states = None
          THEN Out(Raise("ValueError", "Cannnot load eye states data."), <<>>)
          ELSE IF Selected(names, "imu") /\ r.imu = None
          THEN Out(Raise("ValueError", "Cannnot load IMU data."), <<>>)
          ELSE
            LET stream_info == StreamInfo(r, names, 1)
                sfs == [k \in 1..Len(stream_info) |-> stream_info[k].sf]
            IN  IF sampling_freq.str /\ sampling_freq.name \notin {"min", "max"}
                THEN Out(Raise("ValueError",
                               "Invalid sampling_freq, must be 'min', 'max', or numeric"),
                         <<>>)
                ELSE
                  LET sf == IF sampling_freq.str
                            THEN (IF sampling_freq.name = "min" THEN SeqMin(sfs)
                                  ELSE SeqMax(sfs))
                            ELSE sampling_freq.num
                      max_first_ts ==
                          SeqMax([k \in 1..Len(stream_info) |-> stream_info[k].first_ts])
                      min_last_ts ==
                          SeqMin([k \in 1..Len(stream_info) |-> stream_info[k].last_ts])
                      new_ts == arange(max_first_ts, min_last_ts, Step(sf))
                  IN  \* np.arange with a step of 0
                      IF Step(sf) = 0
                      THEN Out(Raise("ZeroDivisionError", "division by zero"), <<>>)
                      \* new_ts[0] of an empty timeline (line 343)
                      ELSE IF new_ts = <<>>
                      THEN Out(Raise("IndexError", "index 0 is out of bounds"), <<>>)
                      ELSE MergeLoop(stream_info, 1, new_ts,
                             [cols |-> <<TS, TIME>>,
                              dtypes |-> <<"Int64", "float64">>,
                              rows |-> [i \in 1..Len(new_ts) |->
                                          <<new_ts[i], new_ts[i] - new_ts[1]>>]],
                             <<>>)

\* a stream of the recording: its nominal sampling frequency, its first and
\* last timestamps, and its table, here the two samples at these timestamps
\* of a float column (and of an int64 column "worn" for gaze)
Stream(key, sf, first_ts, last_ts) ==
    [key |-> key, sf |-> sf, first_ts |-> first_ts, last_ts |-> last_ts,
     data |-> IF key = "gaze"
              THEN [cols |-> <<TS, TIME, "gaze x [px]", "worn">>,
                    dtypes |-> <<"int64", "float64", "float64", "int64">>,
                    rows |-> << <<first_ts, 0, Float(0), Float(1)>>,
                                <<last_ts, last_ts - first_ts, Float(1), Float(1)>> >>]
              ELSE [cols |-> <<TS, TIME, key \o " value">>,
                    dtypes |-> <<"int64", "float64", "float64">>,
                    rows |-> << <<first_ts, 0, Float(1)>>,
                                <<last_ts, last_ts - first_ts, Float(0)>> >>]]

\* the recordings: each stream absent or present; the present ones overlap,
\* or touch (imu starts when the eye states end), or are apart (imu starts
\* after the short gaze stream has ended)
StreamRecs ==
    { [gaze |-> g, eye_states |-> e, imu |-> m,
       blinks |-> None, fixations |-> None, saccades |-> None, events |-> None] :
        g \in {None, Some(Stream("gaze", 200, 0, 25000000)),
                     Some(Stream("gaze", 200, 0, 400000000))},
        e \in {None, Some(Stream("eye_states", 200, 10000000, 30000000))},
        m \in {None, Some(Stream("imu", 110, 0, 333333333)),
                     Some(Stream("imu", 110, 30000000, 333333333))} }

StreamNames == {"gaze", "Gaze", "eye_states", "3d_eye_states", "imu", "foo"}
StreamNameArgs ==
    {[str |-> TRUE, name |-> v, list |-> <<>>] : v \in {"all", "gaze"}}
    \cup {[str |-> FALSE, name |-> "", list |-> l] :
             l \in UNION {[1..n -> StreamNames] : n \in 0..MaxNames}}
FreqArgs ==
    {[str |-> TRUE, name |-> v, num |-> 0] : v \in {"min", "max", "mean"}}
    \cup {[str |-> FALSE, name |-> "", num |-> v] : v \in {6, 2000000000}}

\* inplace=True: the table of every resampled stream is replaced by its
\* resampled table
Replaced(r, done) ==
    [f \in DOMAIN r |->
        IF \E k \in 1..Len(done) : done[k][1] = f
        THEN LET k == CHOOSE q \in 1..Len(done) : done[q][1] = f
             IN  Some([r[f][1] EXCEPT !.data = done[k][2]])
        ELSE r[f]]

\* one request to concat_streams on the recording as loaded
ConcatStreamsCall ==
    /\ call.op = "none"
    /\ \E stream_names \in StreamNameArgs, sampling_freq \in FreqArgs,
          inplace \in BOOLEAN :
          \E out \in {concat_streams(rec, stream_names, sampling_freq)} :
              /\ call' = [op |-> "concat_streams", rec |-> rec,
                          stream_names |-> stream_names,
                          sampling_freq |-> sampling_freq, inplace |-> inplace,
                          resampled |-> Len(out.done)]
              /\ ret' = out.ret
              /\ rec' = IF inplace THEN Replaced(rec, out.done) ELSE rec
              /\ UNCHANGED <<data, ncalls>>

InitStreams ==
    /\ rec \in StreamRecs
    /\ data = NoTable
    /\ call = NoCall
    /\ ret = NoRet
    /\ ncalls = 0

NextStreams == ConcatStreamsCall

SpecStreams == InitStreams /\ [][NextStreams]_vars

\* the request of a concat_streams call: the names it lists, the streams
\* these select (names are case-insensitive, "3d_eye_states" is an alias of
\* "eye_states", a repeated name counts once), and its target frequency
ReqNames == IF call.stream_names.str
            THEN (IF call.stream_names.name = "all" THEN VALID_STREAMS ELSE {})
            ELSE {Lower(call.stream_names.list[i]) :
                     i \in 1..Len(call.stream_names.list)}
ReqStreams ==
    (IF "gaze" \in ReqNames THEN {"gaze"} ELSE {})
    \cup (IF ReqNames \cap {"eye_states", "3d_eye_states"} # {}
          THEN {"eye_states"} ELSE {})
    \cup (IF "imu" \in ReqNames THEN {"imu"} ELSE {})
ReqFreqValid ==
    IF call.sampling_freq.str THEN call.sampling_freq.name \in {"min", "max"}
    ELSE call.sampling_freq.num > 0
\* a request of two streams or more, all available, with a valid frequency
ReqValid ==
    /\ call.op = "concat_streams"
    /\ call.stream_names.str => call.stream_names.name = "all"
    /\ ReqNames \subseteq VALID_STREAMS
    /\ Cardinality(ReqStreams) >= 2
    /\ \A k \in ReqStreams : call.rec[k] # None
    /\ ReqFreqValid
ReqStart == CHOOSE t \in {call.rec[k][1].first_ts : k \in ReqStreams} :
               \A k \in ReqStreams : call.rec[k][1].first_ts <= t
ReqEnd == CHOOSE t \in {call.rec[k][1].last_ts : k \in ReqStreams} :
             \A k \in ReqStreams : t <= call.rec[k][1].last_ts
ReqFreq ==
    IF ~call.sampling_freq.str THEN call.sampling_freq.num
    ELSE IF call.sampling_freq.name = "min"
    THEN CHOOSE f \in {call.rec[k][1].sf : k \in ReqStreams} :
            \A k \in ReqStreams : f <= call.rec[k][1].sf
    ELSE CHOOSE f \in {call.rec[k][1].sf : k \in ReqStreams} :
            \A k \in ReqStreams : call.rec[k][1].sf <= f
\* Python's round(1e9 / f): to the nearest integer, a tie to the even one
ReqRoundedStep ==
    LET q == NsPerSec \div ReqFreq
        r == NsPerSec % ReqFreq
    IN  IF 2 * r > ReqFreq THEN q + 1
        ELSE IF 2 * r < ReqFreq THEN q
        ELSE IF q % 2 = 0 THEN q ELSE q + 1
\* int(1e9 / f): the quotient truncated
ReqTruncatedStep == NsPerSec \div ReqFreq
\* the call returned the timeline start, start + step, ... below end, of
\* ceil((end - start) / step) rows
Timeline(step) ==
    /\ ret.status = "ok"
    /\ Len(ret.table.rows) = (ReqEnd - ReqStart + step - 1) \div step
    /\ \A i \in 1..Len(ret.table.rows) :
          /\ ret.table.rows[i][1] = ReqStart + (i - 1) * step
          /\ ret.table.rows[i][1] < ReqEnd

\* C1, as stated: for a valid request with start < end, the timeline has the
\* step round(1e9 / target_frequency) and ceil((end - start) / step) rows.
C1_TimelineWithRoundedStep ==
    (ReqValid /\ ReqStart < ReqEnd /\ ReqRoundedStep >= 1)
        => Timeline(ReqRoundedStep)

\* C1, amended: for a valid request with start < end, the timeline is start,
\* start + step, ... strictly below end with step = int(1e9 /
\* target_frequency), the quotient truncated (not rounded) to whole
\* nanoseconds, where it is at least 1, and has ceil((end - start) / step) rows.
C1_TimelineWithTruncatedStep ==
    (ReqValid /\ ReqStart < ReqEnd /\ ReqTruncatedStep >= 1)
        => Timeline(ReqTruncatedStep)

\* a timeline of three rows or more at a numeric frequency whose period is
\* not a whole number of nanoseconds
C1_Witness ==
    /\ ReqValid /\ ReqStart < ReqEnd
    /\ ~call.sampling_freq.str
    /\ NsPerSec % ReqFreq # 0
    /\ ReqTruncatedStep >= 1
    /\ ret.status = "ok"
    /\ Len(ret.table.rows) >= 3

\* C2: a valid request whose streams do not overlap in time (start >= end)
\* returns an empty table and raises nothing.
C2_NoOverlapGivesEmptyTable ==
    (ReqValid /\ ReqStart >= ReqEnd) =>
        /\ ret.status = "ok"
        /\ ret.table.rows = <<>>

\* what the code does there: it raises, and returns no table
ConcatStreamsNoOverlapRaises ==
    (ReqValid /\ ReqStart >= ReqEnd) =>
        /\ ret.status = "raise"
        /\ ret.error \in {"IndexError", "ZeroDivisionError"}

\* C3: a request that selects fewer than two streams fails with ValueError;
\* no stream is resampled and no table is returned.
C3_FewerThanTwoStreamsFails ==
    (call.op = "concat_streams" /\ Cardinality(ReqStreams) < 2) =>
        /\ ret.status = "raise"
        /\ ret.error = "ValueError"
        /\ ret.table = NoTable
        /\ call.resampled = 0
        /\ rec = call.rec

---------------------------------------------------------------------------
(* concat_events                                                           *)
(*                                                                         *)
(* The cells of an event table are records [i, s]: an integer n is         *)
(* [i |-> n, s |-> ""], a string t is [i |-> 0, s |-> t], and the missing  *)
(* marker of pandas is NA.  The table that concat_events returns has a     *)
(* field index, the row labels.                                            *)

\* the largest number of calls to concat_events on one recording
MaxCalls == 2

I(n) == [i |-> n, s |-> ""]
S(t) == [i |-> 0, s |-> t]
NA == [i |-> 0, s |-> "<NA>"]

START == "start timestamp [ns]"
END == "end timestamp [ns]"

VALID_EVENTS == {"blink", "blinks", "fixation", "fixations",
                 "saccade", "saccades", "event", "events"}

\* str.lower() on the names of the model
LowerEvent(name) == CASE name = "Blink" -> "blink"
                      [] OTHER -> name

Unique(cols) == \A i, j \in 1..Len(cols) : cols[i] = cols[j] => i = j

\* the names of cols that are not among have, in order
RECURSIVE NewCols(_, _)
NewCols(cols, have) ==
    IF cols = <<>> THEN <<>>
    ELSE (IF \E i \in 1..Len(have) : have[i] = cols[1] THEN <<>> ELSE <<cols[1]>>)
         \o NewCols(Tail(cols), have)

\* pd.concat([a, b], ignore_index=True) of frames with unique column names:
\* the union of the columns, those of a first, and the rows of a, then of b,
\* with NA in the columns a row's frame has not
concat(a, b) ==
    LET cols == a.cols \o NewCols(b.cols, a.cols)
        cell(df, row, name) == IF HasCol(df, name) THEN row[ColIdx(df, name)] ELSE NA
    IN  [cols |-> cols,
         rows |-> [r \in 1..Len(a.rows) |->
                     [c \in 1..Len(cols) |-> cell(a, a.rows[r], cols[c])]]
                  \o [r \in 1..Len(b.rows) |->
                        [c \in 1..Len(cols) |-> cell(b, b.rows[r], cols[c])]]]

\* data[name] = value: the column overwritten if a column has the name, and
\* appended otherwise
SetCol(df, name, value) ==
    IF HasCol(df, name)
    THEN [cols |-> df.cols,
          rows |-> [r \in 1..Len(df.rows) |->
                      [c \in 1..Len(df.cols) |->
                          IF df.cols[c] = name THEN value ELSE df.rows[r][c]]]]
    ELSE [cols |-> Append(df.cols, name),
          rows |-> [r \in 1..Len(df.rows) |-> Append(df.rows[r], value)]]

\* data.rename(columns={old: new}, inplace=True)
Rename(df, old, new) ==
    [cols |-> [c \in 1..Len(df.cols) |-> IF df.cols[c] = old THEN new ELSE df.cols[c]],
     rows |-> df.rows]

\* the event kinds in the order of lines 420-451, the names of each, its
\* discriminator and the message when its data is absent
EventOrder == <<"blinks", "fixations", "saccades", "events">>
Singular(kind) == CASE kind = "blinks" -> "blink"
                    [] kind = "fixations" -> "fixation"
                    [] kind = "saccades" -> "saccade"
                    [] kind = "events" -> "event"
Wanted(names, kind) ==
    \E i \in 1..Len(names) : names[i] = kind \/ names[i] = Singular(kind)

\* lines 423-424, 430-431, 437-438, 444-449: the recording's own table of the
\* kind after the assignments and renames made on it (data is the table of the
\* recording, not a copy)
Tagged(df, kind) ==
    IF kind = "events"
    THEN Rename(SetCol(Rename(Rename(df, "name", "message name"),
                              "type", "message type"),
                       "type", S("event")),
                TS, START)
    ELSE SetCol(df, "type", S(Singular(kind)))

\* lines 420-451 from the k-th kind on: the recording as the steps left it,
\* and the outcome, concat_data when no step raised
RECURSIVE EventsLoop(_, _, _, _)
EventsLoop(r, names, k, concat_data) ==
    IF k > Len(EventOrder) THEN [rec |-> r, ret |-> Ok(concat_data)]
    ELSE
      LET kind == EventOrder[k]
      IN  IF ~Wanted(names, kind) THEN EventsLoop(r, names, k + 1, concat_data)
          ELSE IF r[kind] = None
          THEN [rec |-> r, ret |-> Raise("ValueError", "Cannnot load data.")]
          ELSE
            LET tagged == Tagged(r[kind][1], kind)
                r2 == [r EXCEPT ![kind] = Some(tagged)]
            IN  \* pd.concat cannot align a frame whose column names repeat
                IF ~Unique(tagged.cols)
                THEN [rec |-> r2,
                      ret |-> Raise("InvalidIndexError",
                                    "Reindexing only valid with uniquely valued Index objects")]
                ELSE EventsLoop(r2, names, k + 1, concat(concat_data, tagged))

\* the orders in which a sort by start timestamp can leave the rows: every
\* order that is ascending (the default sort of sort_values is not stable)
RECURSIVE SortedOrders(_, _)
SortedOrders(idx, key) ==
    IF idx = {} THEN {<<>>}
    ELSE UNION { {<<i>> \o o : o \in SortedOrders(idx \ {i}, key)} :
                 i \in {j \in idx : \A q \in idx : key[j] <= key[q]} }

\* lines 395-451
concat_events(r, event_names) ==
    IF event_names.str /\ event_names.name # "all"
    THEN [rec |-> r,
          ret |-> Raise("ValueError",
                        "Invalid event_names, must be 'all' or a list of event names.")]
    ELSE
      LET listed == IF event_names.str
                    THEN <<"blink", "blinks", "fixation", "fixations",
                           "saccade", "saccades", "event", "events">>
                    ELSE event_names.list
          names == [i \in 1..Len(listed) |-> LowerEvent(listed[i])]
      IN  IF Len(listed) <= 1
          THEN [rec |-> r,
                ret |-> Raise("ValueError",
                              "Must provide at least two events to concatenate.")]
          ELSE IF \E i \in 1..Len(names) : names[i] \notin VALID_EVENTS
          THEN [rec |-> r, ret |-> Raise("ValueError", "Invalid event name")]
          ELSE EventsLoop(r, names, 1,
                          [cols |-> <<"type", START, END, "duration [ms]">>,
                           rows |-> <<>>])

\* the event tables of a recording as loaded
BlinkTable ==
    [cols |-> <<"blink id", START, END, "duration [ms]">>,
     rows |-> << <<I(1), I(10), I(12), I(2)>>, <<I(2), I(30), I(31), I(1)>> >>]
FixationTable ==
    [cols |-> <<"fixation id", START, END, "duration [ms]", "fixation x [px]">>,
     rows |-> << <<I(1), I(5), I(10), I(5), I(7)>>, <<I(2), I(12), I(30), I(18), I(8)>> >>]
SaccadeTable ==
    [cols |-> <<"saccade id", START, END, "duration [ms]">>,
     rows |-> << <<I(1), I(10), I(12), I(2)>> >>]
EventTable ==
    [cols |-> <<TS, "name", "type">>,
     rows |-> << <<I(0), S("recording.begin"), S("recording")>>,
                 <<I(30), S("recording.end"), S("recording")>> >>]

EventRecs ==
    { [gaze |-> None, eye_states |-> None, imu |-> None,
       blinks |-> b, fixations |-> f, saccades |-> c, events |-> e] :
        b \in {None, Some(BlinkTable)}, f \in {None, Some(FixationTable)},
        c \in {None, Some(SaccadeTable)}, e \in {None, Some(EventTable)} }

EventNames == {"blinks", "Blink", "fixations", "saccades", "events", "foo"}
EventNameArgs ==
    {[str |-> TRUE, name |-> v, list |-> <<>>] : v \in {"all", "blinks"}}
    \cup {[str |-> FALSE, name |-> "", list |-> l] :
             l \in {<<>>} \cup [1..1 -> EventNames] \cup [1..2 -> EventNames]}

\* a request to concat_events (lines 395-454): the steps of concat_events on
\* the recording, then the sort by start timestamp and the new index
ConcatEventsCall ==
    /\ ncalls < MaxCalls
    /\ \E event_names \in EventNameArgs :
          \E out \in {concat_events(rec, event_names)} :
              /\ ncalls' = ncalls + 1
              /\ call' = [op |-> "concat_events", rec |-> rec,
                          event_names |-> event_names]
              /\ rec' = out.rec
              /\ IF out.ret.status # "ok" THEN ret' = out.ret
                 ELSE \E o \in SortedOrders(1..Len(out.ret.table.rows),
                                            [r \in 1..Len(out.ret.table.rows) |->
                                                Col(out.ret.table, START)[r].i]) :
                         ret' = Ok([cols |-> out.ret.table.cols,
                                    index |-> [r \in 1..Len(o) |-> r - 1],
                                    rows |-> [r \in 1..Len(o) |->
                                                 out.ret.table.rows[o[r]]]])
              /\ UNCHANGED data

InitEvents ==
    /\ rec \in EventRecs
    /\ data = NoTable
    /\ call = NoCall
    /\ ret = NoRet
    /\ ncalls = 0

NextEvents == ConcatEventsCall

SpecEvents == InitEvents /\ [][NextEvents]_vars

EventKinds == {"blinks", "fixations", "saccades", "events"}

\* C4: a concat_events call, successful or failed, leaves every event table
\* of the recording with the column names and the rows it had before the call
\* (and so, after any sequence of calls, as before the first).
C4_EventTablesUntouched ==
    call.op = "concat_events" =>
        \A k \in EventKinds :
           /\ (rec[k] = None) <=> (call.rec[k] = None)
           /\ rec[k] # None =>
                 /\ rec[k][1].cols = call.rec[k][1].cols
                 /\ rec[k][1].rows = call.rec[k][1].rows

\* the request of a concat_events call for a pair of distinct kinds, both
\* with data: the two names are valid (in any letter case) and name two kinds
PairNames == [i \in 1..Len(call.event_names.list) |->
                 LowerEvent(call.event_names.list[i])]
KindOf(name) == CHOOSE k \in EventKinds : name = k \/ name = Singular(k)
PairKinds == {KindOf(PairNames[i]) : i \in 1..Len(PairNames)}
PairRequest ==
    /\ call.op = "concat_events"
    /\ ~call.event_names.str
    /\ Len(call.event_names.list) = 2
    /\ \A i \in 1..2 : PairNames[i] \in VALID_EVENTS
    /\ Cardinality(PairKinds) = 2
    /\ \A k \in PairKinds : call.rec[k] # None
\* the start timestamps of the recording's table of a kind, before the call
SourceStarts(k) ==
    LET df == call.rec[k][1]
    IN  IF HasCol(df, START) THEN [r \in 1..Len(df.rows) |-> Col(df, START)[r].i]
        ELSE [r \in 1..Len(df.rows) |-> Col(df, TS)[r].i]
PairOutput ==
    /\ ret.status = "ok"
    /\ LET out == ret.table
           n == Len(out.rows)
           starts == [r \in 1..n |-> Col(out, START)[r].i]
           types == [r \in 1..n |-> Col(out, "type")[r].s]
       IN  /\ n = SeqSum([i \in 1..2 |-> Len(call.rec[KindOf(PairNames[i])][1].rows)])
           /\ NonDecreasing(starts)
           /\ out.index = [r \in 1..n |-> r - 1]
           /\ \A r \in 1..n : \E k \in PairKinds : types[r] = Singular(k)
           /\ \A k \in PairKinds : \A t \in 0..40 :
                 Cardinality({r \in 1..n : types[r] = Singular(k) /\ starts[r] = t})
                    = Occurrences(SourceStarts(k), t)

\* C8: for a pair of distinct valid event kinds with data, concat_events
\* returns as many rows as the two event tables have together, in ascending
\* order of start timestamp with the index 0..n-1, every row with the type of
\* the kind it came from.
C8_PairIsMergedSortedAndTagged == PairRequest => PairOutput

\* what the code does: the claim of C8 holds for the first call on a
\* recording, whose tables no earlier call has changed
ConcatEventsFirstCall == (PairRequest /\ ncalls = 1) => PairOutput

\* the table of a successful call as it was appended (lines 420-451), before
\* the sort of line 452: blinks, then fixations, then saccades, then events,
\* each kind in the row order of its table
Appended == concat_events(call.rec, call.event_names).ret.table
AppendedStarts == [r \in 1..Len(Appended.rows) |-> Col(Appended, START)[r].i]

\* the one order a stable sort by key gives: ascending, rows of equal key in
\* the order they had
StableOrder(idx, key) ==
    CHOOSE o \in SortedOrders(idx, key) :
        \A a, b \in 1..Len(o) :
            (a < b /\ key[o[a]] = key[o[b]]) => o[a] < o[b]

\* a successful call whose appended table has two rows of equal start
ConcatEventsOk == call.op = "concat_events" /\ ret.status = "ok"
HasTie ==
    \E a, b \in 1..Len(Appended.rows) : a < b /\ AppendedStarts[a] = AppendedStarts[b]

\* C11: the rows concat_events returns are the appended rows in the order of a
\* stable sort by start timestamp: rows of equal start timestamp keep the
\* order in which they were appended.
C11_TiesKeepAppendOrder ==
    ConcatEventsOk =>
        LET o == StableOrder(1..Len(Appended.rows), AppendedStarts)
        IN  ret.table.rows = [r \in 1..Len(o) |-> Appended.rows[o[r]]]

\* what the code does: the rows returned are the appended rows in some
\* ascending order of start timestamp; where no two starts are equal that
\* order is the stable one
ConcatEventsSomeAscendingOrder ==
    ConcatEventsOk =>
        /\ \E o \in SortedOrders(1..Len(Appended.rows), AppendedStarts) :
              ret.table.rows = [r \in 1..Len(o) |-> Appended.rows[o[r]]]
        /\ ~HasTie =>
              LET o == StableOrder(1..Len(Appended.rows), AppendedStarts)
              IN  ret.table.rows = [r \in 1..Len(o) |-> Appended.rows[o[r]]]

\* a call that returned rows of equal start timestamp in the appended order
ConcatEventsTieKept ==
    /\ ConcatEventsOk
    /\ HasTie
    /\ LET o == StableOrder(1..Len(Appended.rows), AppendedStarts)
       IN  ret.table.rows = [r \in 1..Len(o) |-> Appended.rows[o[r]]]

=============================================================================
